---------------------------- MODULE Spec2Model ----------------------------
(***************************************************************************)
(* A model of captum/optim/param/images.py: the image parameterizations    *)
(* (PixelImage, FFTImage), the colour decorrelation (ToRGB), the           *)
(* composite NaturalImage and the module-level logit.                      *)
(*                                                                         *)
(* Numbers.  A float is modelled in fixed point: the integer n stands for  *)
(* n / SCALE.  log, exp, sqrt, cos and sin are computed by integer         *)
(* algorithms whose error is a few units of 1/SCALE.                       *)
(*                                                                         *)
(* Tensors.  A tensor is a record [shape, data, sid]: shape is the tuple   *)
(* of its sizes, data maps an index tuple to a number, and sid names the   *)
(* storage it lives in (two tensors with one sid alias each other, so an   *)
(* in-place operation on one is seen through the other).  The axes are in  *)
(* the order the source names them: (C, H, W) and (C, H_f, W_f, complex).  *)
(*                                                                         *)
(* Modules.  An nn.Module is modelled by its `parameters` and `buffers`    *)
(* dictionaries; attribute assignment goes through SetAttr, which does     *)
(* what nn.Module.__setattr__ does.                                        *)
(*                                                                         *)
(* Left out.  The names of the tensor dimensions ("C", "H", "W"): every    *)
(* tensor is taken to carry the names the code asks for.  NaN as an input. *)
(* PixelImage's init argument and LaplacianImage, which no operation here  *)
(* uses.  torch.randn is a choice among a few patterns of draws.           *)
(***************************************************************************)
EXTENDS Integers, Sequences, FiniteSets, TLC

VARIABLES
    cls,          \* class of the object the calls are made on
    Parameterization, \* class owning the latent ("none" for ToRGB / logit)
    size,         \* self.size, <<H, W>>
    channels,     \* the channels argument of the constructor
    parameters,   \* name -> tensor: the registered nn.Parameters
    buffers,      \* name -> tensor / matrix: the registered buffers
    op,           \* the last call made on the object
    arg,          \* the argument of the first / last call, or None
    ret,          \* what the last call returned, or None
    err           \* the error the last call ended in, or "none"

vars == <<cls, Parameterization, size, channels, parameters, buffers,
          op, arg, ret, err>>

None == [none |-> TRUE]

(***************************** bounds **************************************)
MaxH == 2
MaxW == 3
MaxC == 5

(*************************** fixed point ***********************************)
SCALE == 10^4

Abs(a) == IF a < 0 THEN -a ELSE a

Max2(a, b) == IF a >= b THEN a ELSE b

Min2(a, b) == IF a <= b THEN a ELSE b

\* a / b rounded to the nearest integer, for b > 0
RoundDiv(a, b) == (a + b \div 2) \div b

\* fixed-point product a * b of two fixed-point numbers (|b| below 2 * 10^5)
Mul(a, b) == (a \div SCALE) * b + RoundDiv((a % SCALE) * b, SCALE)

\* fixed-point quotient a / b of two fixed-point numbers, 0 < b below 2 * 10^5
Div(a, b) == (a \div b) * SCALE + RoundDiv((a % b) * SCALE, b)

RECURSIVE SqrtSearch(_, _, _)
SqrtSearch(n, lo, hi) ==
    IF hi - lo <= 1 THEN lo
    ELSE LET mid == (lo + hi) \div 2
         IN  IF mid * mid <= n THEN SqrtSearch(n, mid, hi)
                               ELSE SqrtSearch(n, lo, mid)

\* floor(sqrt(n)) for 0 <= n < 46340^2
Isqrt(n) == SqrtSearch(n, 0, 46340)

RECURSIVE Log2Floor(_)
Log2Floor(n) == IF n < 2 THEN 0 ELSE 1 + Log2Floor(n \div 2)

\* SCALE * k * ln(2)
KLn2(k) == RoundDiv(k * 693147, 10^6 \div SCALE)

\* 2 * atanh(t) = 2 (t + t^3/3 + t^5/5 + t^7/7 + t^9/9), 0 <= t < 1/3
Atanh2(t) ==
    LET t2 == Mul(t, t)
        t3 == Mul(t, t2)
        t5 == Mul(t3, t2)
        t7 == Mul(t5, t2)
        t9 == Mul(t7, t2)
    IN  2 * t + RoundDiv(2 * t3, 3) + RoundDiv(2 * t5, 5)
              + RoundDiv(2 * t7, 7) + RoundDiv(2 * t9, 9)

\* SCALE * ln(n) for an integer n >= 1: n = 2^k * x, 1 <= x < 2
LnInt(n) ==
    LET k == Log2Floor(n)
        p == 2^k
    IN  KLn2(k) + Atanh2(RoundDiv((n - p) * SCALE, n + p))

\* the floats that are no numbers: inf, -inf and nan
Inf == 2^30

NaN == 2^30 + 1

Finite(x) == Abs(x) < Inf

\* torch.log(num / den) for num, den >= 0
Log(num, den) ==
    IF num = 0 /\ den = 0 THEN NaN
    ELSE IF den = 0 THEN Inf
    ELSE IF num = 0 THEN -Inf
    ELSE LnInt(num) - LnInt(den)

RECURSIVE ExpSeries(_, _, _)
\* sum of the terms (-r)^i / i! from term i on, up to i = 9
ExpSeries(r, i, term) ==
    IF i > 9 THEN 0
    ELSE term + ExpSeries(r, i + 1, -RoundDiv(term * r, (i + 1) * SCALE))

\* exp(-a) for a >= 0: a = k ln 2 + r, exp(-a) = exp(-r) / 2^k
ExpNeg(a) ==
    LET k == a \div KLn2(1)
        r == a - KLn2(k)
    IN  IF k > 20 \/ r < 0 THEN 0 ELSE RoundDiv(ExpSeries(r, 0, SCALE), 2^k)

\* torch.sigmoid of one element
Sigmoid(x) ==
    LET e == ExpNeg(Abs(x))
        s == RoundDiv(SCALE * SCALE, SCALE + e)
    IN  IF x >= 0 THEN s ELSE SCALE - s

(****************************** tensors ************************************)
Tensor(shape, data, sid) == [shape |-> shape, data |-> data, sid |-> sid]

Idx2(shape) == (1..shape[1]) \X (1..shape[2])

Idx3(shape) == (1..shape[1]) \X (1..shape[2]) \X (1..shape[3])

Idx4(shape) == (1..shape[1]) \X (1..shape[2]) \X (1..shape[3]) \X (1..shape[4])

Ok(v) == [err |-> "none", val |-> v]

Raise(e) == [err |-> e, val |-> None]

\* the smallest storage id not in use
Fresh(used) == CHOOSE s \in 0..Cardinality(used) :
                   s \notin used /\ \A t \in 0..(s - 1) : t \in used

\* x[lo:hi] along the first axis (1-based, inclusive): a view of x's storage
Slice(x, lo, hi) ==
    Tensor(<<hi - lo + 1, x.shape[2], x.shape[3]>>,
           [i \in Idx3(<<hi - lo + 1, x.shape[2], x.shape[3]>>) |->
               x.data[<<i[1] + lo - 1, i[2], i[3]>>]],
           x.sid)

\* torch.cat([a, b], 0): a new tensor
Cat(a, b, sid) ==
    Tensor(<<a.shape[1] + b.shape[1], a.shape[2], a.shape[3]>>,
           [i \in Idx3(<<a.shape[1] + b.shape[1], a.shape[2], a.shape[3]>>) |->
               IF i[1] <= a.shape[1] THEN a.data[i]
               ELSE b.data[<<i[1] - a.shape[1], i[2], i[3]>>]],
           sid)

\* m @ flat, with the spatial axes of x flattened and unflattened again
MatMul(m, x, sid) ==
    Tensor(<<m.shape[1], x.shape[2], x.shape[3]>>,
           [i \in Idx3(<<m.shape[1], x.shape[2], x.shape[3]>>) |->
               RoundDiv(m.data[<<i[1], 1>>] * x.data[<<1, i[2], i[3]>>]
                      + m.data[<<i[1], 2>>] * x.data[<<2, i[2], i[3]>>]
                      + m.data[<<i[1], 3>>] * x.data[<<3, i[2], i[3]>>], SCALE)],
           sid)

\* m.t(): a view of m's storage
Transpose(m) ==
    [shape |-> <<m.shape[2], m.shape[1]>>,
     data |-> [i \in Idx2(<<m.shape[2], m.shape[1]>>) |-> m.data[<<i[2], i[1]>>]],
     sid |-> m.sid]

(******************************* logit *************************************)
\* torch.clamp of one element
Clamp(p, lo, hi) == IF p < lo THEN lo ELSE IF p > hi THEN hi ELSE p

\* logit with the clamp's max forgotten
logit_NoUpperClamp(p, epsilon, sid) ==
    LET q == [i \in DOMAIN p.data |-> Max2(p.data[i], epsilon)]
    IN  IF \E i \in DOMAIN q : q[i] < 0 \/ q[i] >= SCALE
        THEN Raise("AssertionError")
        ELSE Ok(Tensor(p.shape, [i \in DOMAIN q |-> Log(q[i], SCALE - q[i])], sid))

\* logit(p, epsilon): p of any shape
logit(p, epsilon, sid) ==
    LET q == [i \in DOMAIN p.data |-> Clamp(p.data[i], epsilon, SCALE - epsilon)]
    IN  IF \E i \in DOMAIN q : q[i] < 0 \/ q[i] >= SCALE
        THEN Raise("AssertionError")
        ELSE Ok(Tensor(p.shape, [i \in DOMAIN q |-> Log(q[i], SCALE - q[i])], sid))

(******************************* ToRGB *************************************)
Matrix3(rows) ==
    [shape |-> <<3, 3>>,
     data |-> [i \in Idx2(<<3, 3>>) |-> rows[i[1]][i[2]]],
     sid |-> 2]

KLT == <<<<26, 9, 2>>, <<27, 0, -5>>, <<27, -9, 3>>>>

\* 10^5 * the L2 norm of column j of KLT (whose entries are hundredths)
ColNorm(j) == Isqrt(10^6 * (KLT[1][j] * KLT[1][j] + KLT[2][j] * KLT[2][j]
                          + KLT[3][j] * KLT[3][j]))

klt_transform ==
    LET norm == Max2(ColNorm(1), Max2(ColNorm(2), ColNorm(3)))
    IN  Matrix3([i \in 1..3 |-> [j \in 1..3 |->
            RoundDiv(KLT[i][j] * 1000 * SCALE, norm)]])

i1i2i3_transform ==
    Matrix3(<<<<RoundDiv(SCALE, 3), RoundDiv(SCALE, 3), RoundDiv(SCALE, 3)>>,
              <<RoundDiv(SCALE, 2), 0, -RoundDiv(SCALE, 2)>>,
              <<-RoundDiv(SCALE, 4), RoundDiv(SCALE, 2), -RoundDiv(SCALE, 4)>>>>)

\* ToRGB.__init__: the buffers it registers, or the error it raises
ToRGB_init(transform_name) ==
    IF transform_name = "klt" THEN Ok([transform |-> klt_transform])
    ELSE IF transform_name = "i1i2i3" THEN Ok([transform |-> i1i2i3_transform])
    ELSE Raise("ValueError")

\* ToRGB.forward with the alpha channel taken one plane too early: x[2:3]
ToRGB_forward_AlphaOffByOne(transform, x, inverse, s1, s2) ==
    IF Len(x.shape) # 3 THEN Raise("AssertionError")
    ELSE LET has_alpha == x.shape[1] = 4
             rgb == IF has_alpha THEN Slice(x, 1, 3) ELSE x
         IN  IF rgb.shape[1] # 3 THEN Raise("RuntimeError")
             ELSE LET correct == MatMul(IF inverse THEN Transpose(transform)
                                                   ELSE transform, rgb, s1)
                  IN  Ok(IF has_alpha THEN Cat(correct, Slice(x, 3, 3), s2)
                                      ELSE correct)

\* ToRGB.forward taking every channel from the 4th on for alpha: size("C") >= 4
ToRGB_forward_AlphaAtLeast4(transform, x, inverse, s1, s2) ==
    IF Len(x.shape) # 3 THEN Raise("AssertionError")
    ELSE LET has_alpha == x.shape[1] >= 4
             rgb == IF has_alpha THEN Slice(x, 1, 3) ELSE x
         IN  IF rgb.shape[1] # 3 THEN Raise("RuntimeError")
             ELSE LET correct == MatMul(IF inverse THEN Transpose(transform)
                                                   ELSE transform, rgb, s1)
                  IN  Ok(IF has_alpha
                         THEN Cat(correct, Slice(x, 4, x.shape[1]), s2)
                         ELSE correct)

\* ToRGB.forward(x, inverse); s1 and s2 are the storages of the tensors it makes
ToRGB_forward(transform, x, inverse, s1, s2) ==
    IF Len(x.shape) # 3 THEN Raise("AssertionError")
    ELSE LET has_alpha == x.shape[1] = 4
             rgb == IF has_alpha THEN Slice(x, 1, 3) ELSE x
         IN  IF rgb.shape[1] # 3 THEN Raise("RuntimeError")
             ELSE LET correct == MatMul(IF inverse THEN Transpose(transform)
                                                   ELSE transform, rgb, s1)
                  IN  Ok(IF has_alpha THEN Cat(correct, Slice(x, 4, 4), s2)
                                      ELSE correct)

(******************************** FFT **************************************)
RECURSIVE SumOver(_, _)
\* the sum of f[e] over the e in S
SumOver(S, f) ==
    IF S = {} THEN 0
    ELSE LET e == CHOOSE x \in S : TRUE
         IN  f[e] + SumOver(S \ {e}, f)

\* SCALE * cos(2 pi k / n) and SCALE * sin(2 pi k / n), k = 0..n-1, n = 1..6
CosTab == <<
    <<10000>>,
    <<10000, -10000>>,
    <<10000, -5000, -5000>>,
    <<10000, 0, -10000, 0>>,
    <<10000, 3090, -8090, -8090, 3090>>,
    <<10000, 5000, -5000, -10000, -5000, 5000>> >>

SinTab == <<
    <<0>>,
    <<0, 0>>,
    <<0, 8660, -8660>>,
    <<0, 10000, 0, -10000>>,
    <<0, 9511, 5878, -5878, -9511>>,
    <<0, 8660, 8660, 0, -8660, -8660>> >>

Cos2Pi(k, n) == RoundDiv(CosTab[n][(k % n) + 1] * SCALE, 10^4)

Sin2Pi(k, n) == RoundDiv(SinTab[n][(k % n) + 1] * SCALE, 10^4)

\* cos and sin of 2 pi (a / h + b / n)
CosSum(a, h, b, n) ==
    RoundDiv(Cos2Pi(a, h) * Cos2Pi(b, n) - Sin2Pi(a, h) * Sin2Pi(b, n), SCALE)

SinSum(a, h, b, n) ==
    RoundDiv(Sin2Pi(a, h) * Cos2Pi(b, n) + Cos2Pi(a, h) * Sin2Pi(b, n), SCALE)

\* torch.rfft(x, signal_ndim=2): (C, H, W) -> (C, H, W // 2 + 1, 2)
rfft(x, sid) ==
    LET h == x.shape[2]
        w == x.shape[3]
        shape == <<x.shape[1], h, w \div 2 + 1, 2>>
    IN  Tensor(shape,
               [i \in Idx4(shape) |->
                   SumOver((1..h) \X (1..w),
                       [yx \in (1..h) \X (1..w) |->
                           LET a == (i[2] - 1) * (yx[1] - 1)
                               b == (i[3] - 1) * (yx[2] - 1)
                               v == x.data[<<i[1], yx[1], yx[2]>>]
                           IN  IF i[4] = 1
                               THEN Mul(v, CosSum(a, h, b, w))
                               ELSE -Mul(v, SinSum(a, h, b, w))])],
               sid)

\* torch.irfft(s, signal_ndim=2): (C, H, W_f, 2) -> (C, H, 2 (W_f - 1)), for W_f > 1
irfft(s, sid) ==
    LET h == s.shape[2]
        wf == s.shape[3]
        n == 2 * (wf - 1)
        shape == <<s.shape[1], h, n>>
    IN  Tensor(shape,
               [i \in Idx3(shape) |->
                   RoundDiv(
                       SumOver((1..h) \X (1..wf),
                           [vu \in (1..h) \X (1..wf) |->
                               LET a == (vu[1] - 1) * (i[2] - 1)
                                   b == (vu[2] - 1) * (i[3] - 1)
                                   re == s.data[<<i[1], vu[1], vu[2], 1>>]
                                   im == s.data[<<i[1], vu[1], vu[2], 2>>]
                                   weight == IF vu[2] = 1 \/ vu[2] = wf THEN 1 ELSE 2
                               IN  weight * (Mul(re, CosSum(a, h, b, n))
                                           - Mul(im, SinSum(a, h, b, n)))]),
                       h * n)],
               sid)

\* x[:, :h, :w]: a view of x's storage
Crop(x, h, w) ==
    Tensor(<<x.shape[1], Min2(x.shape[2], h), Min2(x.shape[3], w)>>,
           [i \in Idx3(<<x.shape[1], Min2(x.shape[2], h), Min2(x.shape[3], w)>>) |->
               x.data[i]],
           x.sid)

\* two sizes along one axis broadcast together
Compatible(a, b) == a = b \/ a = 1 \/ b = 1

\* the shapes of a (C, H_f, W_f, 2) tensor and of spectrum_scale broadcast
Broadcastable(sa, sb) == \A k \in 1..4 : Compatible(sa[k], sb[k])

\* the element of the broadcast of t at index i
At(t, i) == t.data[[k \in 1..4 |-> IF t.shape[k] = 1 THEN 1 ELSE i[k]]]

\* n * np.fft.fftfreq(n)[i], i = 0..n-1
fftfreq(n, i) == IF i <= (n - 1) \div 2 THEN i ELSE i - n

\* FFTImage.rfft2d_freqs(height, width): an array (height, len(f_x))
rfft2d_freqs(height, width) ==
    LET add == IF width % 2 = 1 THEN 2 ELSE 1
        nx == Min2(width, width \div 2 + add)
    IN  [shape |-> <<height, nx>>,
         data |-> [i \in Idx2(<<height, nx>>) |->
             LET ky == fftfreq(height, i[1] - 1)
                 kx == fftfreq(width, i[2] - 1)
             IN  RoundDiv(Isqrt(10^6 * (kx * kx * height * height
                                      + ky * ky * width * width))
                          * (SCALE \div 1000), width * height)]]

(***************************** nn.Module ***********************************)
\* the storages an object and the tensors of a call hold
Live(self, held) ==
    {self.parameters[n].sid : n \in DOMAIN self.parameters}
        \cup {self.buffers[n].sid : n \in DOMAIN self.buffers} \cup held

\* nn.Module.__setattr__(name, value): an nn.Parameter is registered under
\* name; anything else assigned to the name of a parameter is a TypeError
SetAttr(self, name, value, isParameter) ==
    IF isParameter
    THEN [err |-> "none", val |-> None,
          self |-> [self EXCEPT !.parameters = (name :> value) @@ self.parameters]]
    ELSE IF name \in DOMAIN self.parameters
    THEN [err |-> "TypeError", val |-> None, self |-> self]
    ELSE [err |-> "none", val |-> None, self |-> self]

\* an in-place write of t's data, seen through every tensor on t's storage
WriteThrough(dict, t) ==
    [n \in DOMAIN dict |->
        IF dict[n].sid = t.sid /\ dict[n].shape = t.shape
        THEN [dict[n] EXCEPT !.data = t.data] ELSE dict[n]]

\* torch.randn(shape): standard normal draws, here a pattern of two draws
randn3(shape, r, sid) ==
    Tensor(shape, [i \in Idx3(shape) |-> r[((i[1] + i[2] + i[3]) % 2) + 1]], sid)

randn4(shape, r, sid) ==
    Tensor(shape,
           [i \in Idx4(shape) |-> r[((i[1] + i[2] + i[3] + i[4]) % 2) + 1]], sid)

(****************************** FFTImage ***********************************)
\* FFTImage.__init__(size, channels)
FFTImage_init(sz, ch, r) ==
    LET coeffs_shape == <<ch, sz[1], sz[2] \div 2 + 1, 2>>
        random_coeffs == randn4(coeffs_shape, r, 0)
        frequencies == rfft2d_freqs(sz[1], sz[2])
        floor == RoundDiv(SCALE, Max2(sz[1], sz[2]))
        root == Isqrt(10^6 * sz[1] * sz[2]) * (SCALE \div 1000)
        sshape == <<1, frequencies.shape[1], frequencies.shape[2], 1>>
    IN  [size |-> sz,
         parameters |-> [fourier_coeffs |->
             [random_coeffs EXCEPT !.data =
                 [i \in DOMAIN random_coeffs.data |->
                     RoundDiv(random_coeffs.data[i], 50)]]],
         buffers |-> [spectrum_scale |->
             Tensor(sshape,
                    [i \in Idx4(sshape) |->
                        Mul(root, Div(SCALE,
                            Max2(frequencies.data[<<i[2], i[3]>>], floor)))],
                    1)]]

\* FFTImage.set_image(correlated_image)
FFTImage_set_image(self, correlated_image, s1) ==
    LET coeffs == rfft(correlated_image, s1)
        scale == self.buffers.spectrum_scale
    IN  IF ~Broadcastable(coeffs.shape, scale.shape)
        THEN [err |-> "RuntimeError", val |-> None, self |-> self]
        ELSE SetAttr(self, "fourier_coeffs",
                     Tensor(coeffs.shape,
                            [i \in Idx4(coeffs.shape) |->
                                Div(coeffs.data[i], At(scale, i))], s1),
                     FALSE)

\* FFTImage.forward(); irfft0 is what torch.irfft does with a half spectrum of
\* width 1, whose signal has 2 * (1 - 1) = 0 columns: it raises, or it
\* returns the empty signal
FFTImage_forward(self, irfft0, s1) ==
    LET h == self.size[1]
        w == self.size[2]
        coeffs == self.parameters.fourier_coeffs
        scale == self.buffers.spectrum_scale
    IN  IF ~Broadcastable(coeffs.shape, scale.shape) THEN Raise("RuntimeError")
        ELSE IF coeffs.shape[3] = 1 /\ irfft0 = "raises" THEN Raise("RuntimeError")
        ELSE LET scaled_spectrum ==
                     Tensor(coeffs.shape,
                            [i \in Idx4(coeffs.shape) |->
                                Mul(coeffs.data[i], At(scale, i))], s1)
             IN  Ok(Crop(irfft(scaled_spectrum, s1), h, w))

(***************************** PixelImage **********************************)
\* PixelImage.__init__(size, channels), init=None
PixelImage_init(sz, ch, r) ==
    LET noise == randn3(<<ch, sz[1], sz[2]>>, r, 0)
    IN  [size |-> sz,
         parameters |-> [image |->
             [noise EXCEPT !.data =
                 [i \in DOMAIN noise.data |->
                     RoundDiv(noise.data[i], 10) + SCALE \div 2]]],
         buffers |-> [i \in {} |-> None]]

\* PixelImage.forward(): the parameter itself
PixelImage_forward(self) == Ok(self.parameters.image)

\* PixelImage.set_image assigning the new parameter to another attribute
PixelImage_set_image_OtherName(self, correlated_image) ==
    SetAttr(self, "correlated_image", correlated_image, TRUE)

\* PixelImage.set_image(correlated_image): nn.Parameter shares the storage
PixelImage_set_image(self, correlated_image) ==
    SetAttr(self, "image", correlated_image, TRUE)

(**************************** NaturalImage *********************************)
\* the epsilon NaturalImage.set_image passes to logit: 1e-4
Epsilon == RoundDiv(SCALE, 10^4)

\* NaturalImage.__init__(size, channels, Parameterization)
NaturalImage_init(sz, ch, P, r) ==
    LET parameterization == IF P = "FFTImage" THEN FFTImage_init(sz, ch, r)
                                              ELSE PixelImage_init(sz, ch, r)
        decorrelate == ToRGB_init("klt").val
    IN  [parameterization EXCEPT
            !.buffers = [n \in {"transform"} |-> decorrelate[n]] @@ @]

\* torch.sigmoid_(image): writes the result into image's storage
sigmoid_(image) ==
    [image EXCEPT !.data = [i \in DOMAIN image.data |-> Sigmoid(image.data[i])]]

\* NaturalImage.forward with the decorrelation left out: the sigmoid is
\* applied in place to what the parameterization returned
NaturalImage_forward_NoDecorrelate(self, P, irfft0, held) ==
    LET s1 == Fresh(Live(self, held))
        image == IF P = "FFTImage" THEN FFTImage_forward(self, irfft0, s1)
                                   ELSE PixelImage_forward(self)
    IN  IF image.err # "none"
        THEN [err |-> image.err, val |-> None, self |-> self]
        ELSE LET out == sigmoid_(image.val)
             IN  [err |-> "none", val |-> out,
                  self |-> [self EXCEPT
                      !.parameters = WriteThrough(@, out),
                      !.buffers = WriteThrough(@, out)]]

\* NaturalImage.forward()
NaturalImage_forward(self, P, irfft0, held) ==
    LET s1 == Fresh(Live(self, held))
        s2 == Fresh(Live(self, held \cup {s1}))
        s3 == Fresh(Live(self, held \cup {s1, s2}))
        image == IF P = "FFTImage" THEN FFTImage_forward(self, irfft0, s1)
                                   ELSE PixelImage_forward(self)
    IN  IF image.err # "none"
        THEN [err |-> image.err, val |-> None, self |-> self]
        ELSE LET rgb == ToRGB_forward(self.buffers.transform, image.val,
                                      FALSE, s2, s3)
             IN  IF rgb.err # "none"
                 THEN [err |-> rgb.err, val |-> None, self |-> self]
                 ELSE LET out == sigmoid_(rgb.val)
                      IN  [err |-> "none", val |-> out,
                           self |-> [self EXCEPT
                               !.parameters = WriteThrough(@, out),
                               !.buffers = WriteThrough(@, out)]]

\* NaturalImage.set_image(image)
NaturalImage_set_image(self, P, image) ==
    LET s1 == Fresh(Live(self, {image.sid}))
        s2 == Fresh(Live(self, {image.sid, s1}))
        s3 == Fresh(Live(self, {image.sid, s1, s2}))
        s4 == Fresh(Live(self, {image.sid, s1, s2, s3}))
        logits == logit(image, Epsilon, s1)
    IN  IF logits.err # "none"
        THEN [err |-> logits.err, val |-> None, self |-> self]
        ELSE LET correlated == ToRGB_forward(self.buffers.transform, logits.val,
                                             TRUE, s2, s3)
             IN  IF correlated.err # "none"
                 THEN [err |-> correlated.err, val |-> None, self |-> self]
                 ELSE IF P = "FFTImage"
                 THEN FFTImage_set_image(self, correlated.val, s4)
                 ELSE PixelImage_set_image(self, correlated.val)

(************************ the image objects ********************************)
\* two pairs of standard normal draws
RandnPairs == {<<-SCALE, SCALE>>, <<SCALE \div 2, -(3 * SCALE) \div 2>>}

\* the values of the images passed to set_image
PixVals == {0, SCALE \div 4, (9 * SCALE) \div 10, SCALE}

\* the channels arguments of the constructors
ChannelCounts == {1, 3, 4}

\* an image of two values
Pattern3(shape, u, v, sid) ==
    Tensor(shape,
           [i \in Idx3(shape) |-> IF (i[1] + i[2] + i[3]) % 2 = 0 THEN u ELSE v],
           sid)

Self == [size |-> size, parameters |-> parameters, buffers |-> buffers]

\* the constructor of class c
Construct(c, P, sz, ch, r) ==
    IF c = "NaturalImage" THEN NaturalImage_init(sz, ch, P, r)
    ELSE IF c = "FFTImage" THEN FFTImage_init(sz, ch, r)
    ELSE PixelImage_init(sz, ch, r)

Init ==
    /\ cls \in {"PixelImage", "FFTImage", "NaturalImage"}
    /\ Parameterization \in {"PixelImage", "FFTImage"}
    /\ cls # "NaturalImage" => Parameterization = cls
    /\ size \in (1..MaxH) \X (1..MaxW)
    /\ channels \in ChannelCounts
    /\ \E r \in RandnPairs :
          /\ parameters = Construct(cls, Parameterization, size, channels, r).parameters
          /\ buffers = Construct(cls, Parameterization, size, channels, r).buffers
    /\ op = "init"
    /\ arg = None
    /\ ret = None
    /\ err = "none"

\* obj.forward()
CallForward(self, c, P, irfft0, held) ==
    IF c = "NaturalImage" THEN NaturalImage_forward(self, P, irfft0, held)
    ELSE LET r == IF c = "FFTImage"
                  THEN FFTImage_forward(self, irfft0, Fresh(Live(self, held)))
                  ELSE PixelImage_forward(self)
         IN  [err |-> r.err, val |-> r.val, self |-> self]

\* obj.set_image(image)
CallSetImage(self, c, P, image) ==
    IF c = "NaturalImage" THEN NaturalImage_set_image(self, P, image)
    ELSE IF c = "FFTImage"
    THEN FFTImage_set_image(self, image, Fresh(Live(self, {image.sid})))
    ELSE PixelImage_set_image(self, image)

Forward ==
    \E irfft0 \in {"raises", "empty"} :
        LET r == CallForward(Self, cls, Parameterization, irfft0,
                             IF arg = None THEN {} ELSE {arg.sid})
        IN  /\ parameters' = r.self.parameters
            /\ buffers' = r.self.buffers
            /\ ret' = r.val
            /\ err' = r.err
            /\ op' = "forward"
            /\ UNCHANGED <<cls, Parameterization, size, channels, arg>>

SetImage ==
    \E u \in PixVals, v \in PixVals :
        LET image == Pattern3(<<channels, size[1], size[2]>>, u, v,
                              Fresh(Live(Self, {})))
            r == CallSetImage(Self, cls, Parameterization, image)
        IN  /\ parameters' = r.self.parameters
            /\ buffers' = r.self.buffers
            /\ ret' = r.val
            /\ err' = r.err
            /\ op' = "set_image"
            /\ arg' = image
            /\ UNCHANGED <<cls, Parameterization, size, channels>>

Next == Forward \/ SetImage

Spec == Init /\ [][Next]_vars

(***************************** ToRGB alone *********************************)
\* the values of the inputs of ToRGB.forward
RGBVals == {-2 * SCALE, 0, SCALE \div 2, 3 * SCALE}

NoDict == [n \in {} |-> None]

InitToRGB ==
    /\ cls = "ToRGB"
    /\ Parameterization = "none"
    /\ size = <<0, 0>>
    /\ channels = 0
    /\ parameters = NoDict
    /\ \E name \in {"klt", "i1i2i3", "lab"} :
          /\ err = ToRGB_init(name).err
          /\ buffers = IF ToRGB_init(name).err = "none"
                       THEN ToRGB_init(name).val ELSE NoDict
    /\ op = "init"
    /\ \E c \in 1..MaxC, h \in 1..MaxH, w \in 1..MaxW, u \in RGBVals, v \in RGBVals :
          arg = Pattern3(<<c, h, w>>, u, v, 0)
    /\ ret = None

\* decorrelate(x, inverse) on the argument x
ToRGBCall(x, inverse, name) ==
    LET r == ToRGB_forward(buffers.transform, x, inverse, 3, 4)
    IN  /\ ret' = r.val
        /\ err' = r.err
        /\ op' = name
        /\ UNCHANGED <<cls, Parameterization, size, channels, parameters,
                       buffers, arg>>

ToRGBForward == op = "init" /\ err = "none" /\ ToRGBCall(arg, FALSE, "forward")

ToRGBInverse == op = "init" /\ err = "none" /\ ToRGBCall(arg, TRUE, "inverse")

ToRGBInverseOfForward ==
    op = "forward" /\ err = "none" /\ ToRGBCall(ret, TRUE, "forward_inverse")

NextToRGB == ToRGBForward \/ ToRGBInverse \/ ToRGBInverseOfForward

SpecToRGB == InitToRGB /\ [][NextToRGB]_vars

(***************************** logit alone *********************************)
\* the elements of the inputs of logit
LogitVals == {-Inf, Inf, -SCALE, -1, 0, 1, 2, 99, 100, 101, SCALE \div 4, SCALE \div 2,
              SCALE - 101, SCALE - 100, SCALE - 99, SCALE - 2, SCALE - 1,
              SCALE, SCALE + 1, 2 * SCALE}

InitLogit ==
    /\ cls = "logit"
    /\ Parameterization = "none"
    /\ size = <<0, 0>>
    /\ channels = 0
    /\ parameters = NoDict
    /\ buffers = NoDict
    /\ op = "init"
    /\ \E u \in LogitVals, v \in LogitVals, e \in {Epsilon, 100 * Epsilon} :
          arg = [p |-> Pattern3(<<1, 1, 2>>, u, v, 0), epsilon |-> e]
    /\ ret = None
    /\ err = "none"

LogitCall ==
    /\ op = "init"
    /\ LET r == logit(arg.p, arg.epsilon, 1)
       IN  ret' = r.val /\ err' = r.err
    /\ op' = "logit"
    /\ UNCHANGED <<cls, Parameterization, size, channels, parameters, buffers, arg>>

NextLogit == LogitCall

SpecLogit == InitLogit /\ [][NextLogit]_vars

(***************************** properties **********************************)
IsImage == cls \in {"PixelImage", "FFTImage", "NaturalImage"}

\* the name of the latent array of the Parameterization
LatentName == IF Parameterization = "FFTImage" THEN "fourier_coeffs" ELSE "image"

\* a and b have one shape and differ by at most tol in every element
Close(a, b, tol) ==
    /\ a.shape = b.shape
    /\ \A i \in DOMAIN a.data : Abs(a.data[i] - b.data[i]) <= tol

\* every element of t lies strictly inside (epsilon, 1 - epsilon)
Interior(t) == \A i \in DOMAIN t.data : Epsilon < t.data[i] /\ t.data[i] < SCALE - Epsilon

\* the round-trip tolerance 1e-3
RoundTripTol == RoundDiv(SCALE, 1000)

\* C1: on a 3-channel NaturalImage, forward() after set_image(I), for an I
\* strictly inside (epsilon, 1 - epsilon), completes and returns I within 1e-3
C1_RoundTrip ==
    (cls = "NaturalImage" /\ channels = 3 /\ op = "forward"
        /\ arg # None /\ Interior(arg))
    => (err = "none" /\ ret # None /\ Close(ret, arg, RoundTripTol))

\* C2: forward() of a parameterization, and of a NaturalImage of 3 or 4
\* channels, completes and returns a tensor of shape (channels, H, W)
C2_ShapeInvariance ==
    (IsImage /\ op = "forward" /\ (cls = "NaturalImage" => channels \in {3, 4}))
    => (err = "none" /\ ret # None /\ ret.shape = <<channels, size[1], size[2]>>)

\* the tolerance of the inverse law: 1e-2
InverseTol == RoundDiv(SCALE, 100)

\* C3: for both presets and every 3-channel x, forward(forward(x, inverse=False),
\* inverse=True) completes and returns x within a fixed small tolerance
C3_InverseLaw ==
    (cls = "ToRGB" /\ op = "forward_inverse" /\ arg.shape[1] = 3)
    => (err = "none" /\ ret # None /\ Close(ret, arg, InverseTol))

\* C4: ToRGB.forward of a 4-channel input, in either mode, returns 4 channels
\* of the same spatial size whose 4th plane is the input's 4th plane and whose
\* first three planes are the transform of the input's first three planes
C4_AlphaPassThrough ==
    (cls = "ToRGB" /\ op \in {"forward", "inverse"} /\ arg.shape[1] = 4)
    => /\ err = "none"
       /\ ret # None
       /\ ret.shape = arg.shape
       /\ \A y \in 1..arg.shape[2], x \in 1..arg.shape[3] :
             ret.data[<<4, y, x>>] = arg.data[<<4, y, x>>]
       /\ Slice(ret, 1, 3).data =
             ToRGB_forward(buffers.transform, Slice(arg, 1, 3),
                           op = "inverse", 3, 4).val.data

C4_Witness ==
    /\ cls = "ToRGB" /\ op = "inverse" /\ arg.shape = <<4, MaxH, MaxW>>
    /\ err = "none"
    /\ ret # None
    /\ \E y \in 1..MaxH, x \in 1..MaxW :
          /\ arg.data[<<4, y, x>>] # arg.data[<<3, y, x>>]
          /\ ret.data[<<3, y, x>>] # arg.data[<<3, y, x>>]

\* C5: FFTImage.set_image(image) completes and leaves the latent coefficients
\* equal to rfft(image) / spectrum_scale, whatever the latent was before
C5_SetImageReplaces ==
    (cls = "FFTImage" /\ op = "set_image")
    => /\ err = "none"
       /\ Broadcastable(rfft(arg, 0).shape, buffers.spectrum_scale.shape)
       /\ parameters.fourier_coeffs.shape = rfft(arg, 0).shape
       /\ \A i \in Idx4(rfft(arg, 0).shape) :
             parameters.fourier_coeffs.data[i] =
                 Div(rfft(arg, 0).data[i], At(buffers.spectrum_scale, i))

\* C6: a forward() call leaves every registered parameter as it was, and no
\* call changes a buffer (spectrum_scale, transform)
C6_OnlySetImageChangesState ==
    [][IsImage => /\ (op' = "forward" => parameters' = parameters)
                  /\ buffers' = buffers]_vars

C6_Witness ==
    /\ cls = "NaturalImage" /\ Parameterization = "PixelImage"
    /\ op = "forward" /\ err = "none"
    /\ ret # None
    /\ ret.shape = parameters.image.shape
    /\ ret.data # parameters.image.data

\* C7: the registered parameters of an image object are exactly its latent
\* array; the buffers spectrum_scale and transform are never among them
C7_SingleTrainable ==
    IsImage => /\ DOMAIN parameters = {LatentName}
               /\ DOMAIN parameters \cap DOMAIN buffers = {}
               /\ (Parameterization = "FFTImage"
                      => "spectrum_scale" \in DOMAIN buffers)
               /\ (cls = "NaturalImage" => "transform" \in DOMAIN buffers)

C7_Witness ==
    /\ cls = "NaturalImage" /\ Parameterization = "PixelImage"
    /\ op = "forward" /\ err = "none"
    /\ arg # None
    /\ parameters.image.sid # 0

\* C8: ToRGB.forward, in either mode, raises and returns nothing when its
\* 3-dimensional input has neither 3 nor 4 channels, and completes when it has
\* 3 or 4
C8_ChannelRejection ==
    (cls = "ToRGB" /\ op \in {"forward", "inverse"})
    => /\ (arg.shape[1] \notin {3, 4} => err # "none" /\ ret = None)
       /\ (arg.shape[1] \in {3, 4} => err = "none" /\ ret # None)

C8_Witness ==
    cls = "ToRGB" /\ op = "inverse" /\ arg.shape[1] = MaxC /\ err = "RuntimeError"

\* logit of the single value v
LogitOf(v, epsilon) == logit(Pattern3(<<1, 1, 1>>, v, v, 0), epsilon, 1).val.data[<<1, 1, 1>>]

\* C9: logit(p, epsilon) never raises and every element of its result is
\* finite: logit(epsilon) where p <= epsilon, logit(1 - epsilon) where
\* p >= 1 - epsilon, and log(p / (1 - p)) in between
C9_LogitClamp ==
    (cls = "logit" /\ op = "logit")
    => /\ err = "none"
       /\ ret # None
       /\ \A i \in DOMAIN arg.p.data :
             LET p == arg.p.data[i]
                 e == arg.epsilon
             IN  /\ Finite(ret.data[i])
                 /\ (p <= e => ret.data[i] = LogitOf(e, e))
                 /\ (p >= SCALE - e => ret.data[i] = LogitOf(SCALE - e, e))
                 /\ (e < p /\ p < SCALE - e => ret.data[i] = Log(p, SCALE - p))

C9_Witness ==
    /\ cls = "logit" /\ op = "logit" /\ err = "none"
    /\ arg.epsilon = Epsilon
    /\ arg.p.data[<<1, 1, 1>>] = SCALE
    /\ arg.p.data[<<1, 1, 2>>] = 0
    /\ ret.data[<<1, 1, 1>>] = -ret.data[<<1, 1, 2>>]
    /\ ret.data[<<1, 1, 1>>] > 9 * SCALE

\* C10: rfft2d_freqs(H, W) has shape (H, W // 2 + 1) and spectrum_scale has
\* shape (1, H, W // 2 + 1, 1), which broadcasts with the latent coefficients
C10_SpectrumScaleShape ==
    (IsImage /\ Parameterization = "FFTImage")
    => /\ rfft2d_freqs(size[1], size[2]).shape = <<size[1], size[2] \div 2 + 1>>
       /\ buffers.spectrum_scale.shape = <<1, size[1], size[2] \div 2 + 1, 1>>
       /\ Broadcastable(parameters.fourier_coeffs.shape,
                        buffers.spectrum_scale.shape)

=============================================================================
